---- MODULE Spec2Model ----
(***************************************************************************)
(* State-machine model of ezgui's per-frame drawing context GfxCtx         *)
(* (ezgui/src/drawing.rs).                                                 *)
(*                                                                         *)
(* Numbers.  Canvas fields, map points, screen points and zoom are f64 in  *)
(* the source.  The model draws them from integers whose products and      *)
(* differences stay far below 2^53, so the f64 arithmetic of fork is exact *)
(* on them.  The uniforms are f32: every `as f32` is modelled by AsF32,    *)
(* IEEE round-to-nearest-even to a 24 bit significand.                     *)
(*                                                                         *)
(* Geometry (Line::make_polygons, Line::make_arrow, Circle::to_polygon)    *)
(* and the buffer upload (Prerender::upload_borrowed) live in other crates *)
(* of the repository; they are kept as symbolic constructors.              *)
(* The text-drawing forwarders (draw_blocking_text, draw_text_at,          *)
(* draw_text_at_screenspace_topleft, draw_mouse_tooltip) hand the context  *)
(* to Canvas code that is not part of drawing.rs and are not modelled.     *)
(***************************************************************************)
EXTENDS Integers, Sequences, FiniteSets, TLC

VARIABLES
    canvas,           \* the borrowed Canvas: cam_x, cam_y, cam_zoom, window_width, window_height
    uniforms,         \* self.uniforms: [transform |-> <<x, y, zoom>>, window |-> <<w, h>>]
    target,           \* self.target, the frame: last clear colour and the draw issued on top of it
    num_new_uploads,  \* self.num_new_uploads
    num_draw_calls,   \* self.num_draw_calls
    aborted,          \* TRUE once .unwrap() in redraw has panicked
    fork_xf,          \* history: the transform computed by the most recent fork, or NoFork
    direct_redraw     \* history: redraw has been called by the caller (not through draw_*)

vars == <<canvas, uniforms, target, num_new_uploads, num_draw_calls, aborted,
          fork_xf, direct_redraw>>

----------------------------------------------------------------------------
(* Bounds and input sets *)

\* cap on both counters (usize in the source)
MaxCalls == 2

\* largest number of polygons Line::make_arrow is taken to return
MaxArrowParts == 2

TRIANGLES_PER_CIRCLE == 60

\* 16777217 = 2^24 + 1 is the smallest positive integer f32 cannot hold
Canvases ==
    {[cam_x |-> 0, cam_y |-> 0, cam_zoom |-> 1,
      window_width |-> 800, window_height |-> 600],
     [cam_x |-> -7, cam_y |-> 16777217, cam_zoom |-> 2,
      window_width |-> 1024, window_height |-> 768]}

MapPts == {<<5, 0>>, <<16777217, 9>>}
ScreenPts == {<<3, 1>>}
Zooms == {1, 2}

Colors == {"red", "blue"}
ClearColors == {"black"}
Thicknesses == {2, 4}
Lines == {[pt1 |-> <<0, 0>>, pt2 |-> <<10, 0>>]}
Circles == {[center |-> <<4, 4>>, radius |-> 3]}

NoFork == <<>>
NoDraw == [drawn |-> FALSE]

----------------------------------------------------------------------------
(* f64 -> f32 conversion *)

Abs(n) == IF n < 0 THEN -n ELSE n

\* the f32 unit in the last place of a, for 0 <= a < 2^30: 2^(e - 23) where
\* 2^e <= a < 2^(e + 1), and 1 below 2^24, where every integer is representable
F32Ulp(a) ==
    IF a < 16777216 THEN 1
    ELSE IF a < 33554432 THEN 2
    ELSE IF a < 67108864 THEN 4
    ELSE IF a < 134217728 THEN 8
    ELSE IF a < 268435456 THEN 16
    ELSE IF a < 536870912 THEN 32
    ELSE 64

\* round a >= 0 to the nearest multiple of q, ties to the even multiple
RoundTiesEven(a, q) ==
    LET lo == (a \div q) * q
        r  == a - lo
    IN  IF 2 * r < q THEN lo
        ELSE IF 2 * r > q THEN lo + q
        ELSE IF (a \div q) % 2 = 0 THEN lo ELSE lo + q

AsF32(n) ==
    LET a == Abs(n)
        v == RoundTiesEven(a, F32Ulp(a))
    IN  IF n < 0 THEN -v ELSE v

----------------------------------------------------------------------------
(* Geometry and upload, symbolic *)

make_polygons(line, thickness) ==
    [shape |-> "line", line |-> line, thickness |-> thickness]

\* the i-th of the polygons Line::make_arrow returns
make_arrow(line, thickness, n) ==
    [i \in 1..n |-> [shape |-> "arrow", line |-> line, thickness |-> thickness, part |-> i]]

Circle_new(center, radius) == [center |-> center, radius |-> radius]

to_polygon(circle, triangles) ==
    [shape |-> "circle", center |-> circle.center, radius |-> circle.radius,
     triangles |-> triangles]

\* Distance / 2.0; the thicknesses of the model are even, so the quotient is exact
HalfOf(thickness) == thickness \div 2

\* Prerender::upload_borrowed: the Drawable built from a list of (colour, polygon)
upload_borrowed(list) == [list |-> list]

Polygons == {[shape |-> "poly", id |-> 1]}

Batches == {<<>>,
            << <<"red", [shape |-> "poly", id |-> 1]>>,
               <<"blue", [shape |-> "poly", id |-> 2]>> >>}

\* Drawables uploaded ahead of the frame, handed to redraw directly
Drawables == {upload_borrowed(<< <<"red", [shape |-> "poly", id |-> 3]>> >>)}

----------------------------------------------------------------------------
(* Uniform construction *)

CanvasTransform(cv) == <<AsF32(cv.cam_x), AsF32(cv.cam_y), AsF32(cv.cam_zoom)>>

CanvasWindow(cv) == <<AsF32(cv.window_width), AsF32(cv.window_height)>>

----------------------------------------------------------------------------
(* GfxCtx::new *)

new(cv) ==
    /\ canvas = cv
    /\ uniforms = [transform |-> CanvasTransform(cv), window |-> CanvasWindow(cv)]
    /\ target = [clear |-> "none", draw |-> NoDraw]
    /\ num_new_uploads = 0
    /\ num_draw_calls = 0
    /\ aborted = FALSE
    /\ fork_xf = NoFork
    /\ direct_redraw = FALSE

Init == \E cv \in Canvases : new(cv)

----------------------------------------------------------------------------
(* Faulty variants of the camera operations, used to show that the         *)
(* properties below depend on the operations as written                    *)

\* fork that forgets to scale the map point by the zoom
fork_unscaled(top_left_map, top_left_screen, zoom) ==
    /\ ~aborted
    /\ UNCHANGED <<canvas, target, num_new_uploads, num_draw_calls, aborted,
                   direct_redraw>>
    /\ LET cam_x == top_left_map[1] - top_left_screen[1]
           cam_y == top_left_map[2] - top_left_screen[2]
       IN  /\ uniforms' = [transform |-> <<AsF32(cam_x), AsF32(cam_y), AsF32(zoom)>>,
                           window |-> CanvasWindow(canvas)]
           /\ fork_xf' = <<AsF32(cam_x), AsF32(cam_y), AsF32(zoom)>>

\* fork_screenspace that keeps the canvas zoom
fork_screenspace_canvas_zoom ==
    /\ ~aborted
    /\ uniforms' = [transform |-> <<0, 0, AsF32(canvas.cam_zoom)>>,
                    window |-> CanvasWindow(canvas)]
    /\ UNCHANGED <<canvas, target, num_new_uploads, num_draw_calls, aborted,
                   fork_xf, direct_redraw>>

\* unfork that restores the offset but leaves the zoom of the fork in place
unfork_keeps_zoom ==
    /\ ~aborted
    /\ uniforms' = [transform |-> <<AsF32(canvas.cam_x), AsF32(canvas.cam_y),
                                    uniforms.transform[3]>>,
                    window |-> CanvasWindow(canvas)]
    /\ UNCHANGED <<canvas, target, num_new_uploads, num_draw_calls, aborted,
                   fork_xf, direct_redraw>>

\* clear that also drops back to the canvas camera
clear_resets_camera(color) ==
    /\ ~aborted
    /\ target' = [clear |-> color, draw |-> NoDraw]
    /\ uniforms' = [transform |-> CanvasTransform(canvas), window |-> CanvasWindow(canvas)]
    /\ UNCHANGED <<canvas, num_new_uploads, num_draw_calls, aborted,
                   fork_xf, direct_redraw>>

----------------------------------------------------------------------------
(* Camera transform operations *)

fork(top_left_map, top_left_screen, zoom) ==
    /\ ~aborted
    /\ UNCHANGED <<canvas, target, num_new_uploads, num_draw_calls, aborted,
                   direct_redraw>>
    /\ LET cam_x == (top_left_map[1] * zoom) - top_left_screen[1]
           cam_y == (top_left_map[2] * zoom) - top_left_screen[2]
       IN  /\ uniforms' = [transform |-> <<AsF32(cam_x), AsF32(cam_y), AsF32(zoom)>>,
                           window |-> CanvasWindow(canvas)]
           /\ fork_xf' = <<AsF32(cam_x), AsF32(cam_y), AsF32(zoom)>>

fork_screenspace ==
    /\ ~aborted
    /\ uniforms' = [transform |-> <<0, 0, 1>>, window |-> CanvasWindow(canvas)]
    /\ UNCHANGED <<canvas, target, num_new_uploads, num_draw_calls, aborted,
                   fork_xf, direct_redraw>>

unfork ==
    /\ ~aborted
    /\ uniforms' = [transform |-> CanvasTransform(canvas), window |-> CanvasWindow(canvas)]
    /\ UNCHANGED <<canvas, target, num_new_uploads, num_draw_calls, aborted,
                   fork_xf, direct_redraw>>

clear(color) ==
    /\ ~aborted
    /\ target' = [clear |-> color, draw |-> NoDraw]
    /\ UNCHANGED <<canvas, uniforms, num_new_uploads, num_draw_calls, aborted,
                   fork_xf, direct_redraw>>

----------------------------------------------------------------------------
(* Faulty variants of the drawing operations *)

\* redraw that discards the Result of the draw call instead of unwrapping it
redraw_body_ignores_error(obj, ok) ==
    /\ target' = IF ok
                 THEN [target EXCEPT !.draw =
                         [drawn |-> TRUE, obj |-> obj, uniforms |-> uniforms]]
                 ELSE target
    /\ num_draw_calls' = num_draw_calls + 1
    /\ aborted' = FALSE

\* redraw that always draws with the canvas camera, whatever fork is active
redraw_body_canvas_camera(obj, ok) ==
    IF ok
    THEN /\ target' = [target EXCEPT !.draw =
                         [drawn |-> TRUE, obj |-> obj,
                          uniforms |-> [transform |-> CanvasTransform(canvas),
                                        window |-> CanvasWindow(canvas)]]]
         /\ num_draw_calls' = num_draw_calls + 1
         /\ aborted' = FALSE
    ELSE /\ aborted' = TRUE
         /\ UNCHANGED <<target, num_draw_calls>>

----------------------------------------------------------------------------
(* Drawing.  Every operation starts with the guard ~aborted: once the      *)
(* unwrap in redraw has panicked, nothing of the context runs any more.    *)

\* The body of redraw: self.target.draw(..., &self.uniforms, ...).unwrap(), then the
\* counter.  ok is the Result of the underlying draw call.
redraw_body(obj, ok) ==
    IF ok
    THEN /\ target' = [target EXCEPT !.draw =
                         [drawn |-> TRUE, obj |-> obj, uniforms |-> uniforms]]
         /\ num_draw_calls' = num_draw_calls + 1
         /\ aborted' = FALSE
    ELSE /\ aborted' = TRUE
         /\ UNCHANGED <<target, num_draw_calls>>

\* redraw that counts an upload as well
redraw_counts_upload(obj, ok) ==
    /\ ~aborted
    /\ num_draw_calls < MaxCalls
    /\ num_new_uploads < MaxCalls
    /\ num_new_uploads' = num_new_uploads + 1
    /\ IF ok
       THEN /\ target' = [target EXCEPT !.draw =
                            [drawn |-> TRUE, obj |-> obj, uniforms |-> uniforms]]
            /\ num_draw_calls' = num_draw_calls + 1
            /\ aborted' = FALSE
       ELSE /\ aborted' = TRUE
            /\ UNCHANGED <<target, num_draw_calls>>
    /\ direct_redraw' = TRUE
    /\ UNCHANGED <<canvas, uniforms, fork_xf>>

redraw(obj, ok) ==
    /\ ~aborted
    /\ num_draw_calls < MaxCalls
    /\ redraw_body(obj, ok)
    /\ direct_redraw' = TRUE
    /\ UNCHANGED <<canvas, uniforms, num_new_uploads, fork_xf>>

draw_polygon_batch(list, ok) ==
    /\ ~aborted
    /\ num_draw_calls < MaxCalls
    /\ num_new_uploads < MaxCalls
    /\ num_new_uploads' = num_new_uploads + 1
    /\ redraw_body(upload_borrowed(list), ok)
    /\ UNCHANGED <<canvas, uniforms, fork_xf, direct_redraw>>

\* draw_polygon that forgets to count the upload
draw_polygon_uncounted(color, poly, ok) ==
    /\ ~aborted
    /\ num_draw_calls < MaxCalls
    /\ num_new_uploads < MaxCalls
    /\ IF ok
       THEN /\ target' = [target EXCEPT !.draw =
                            [drawn |-> TRUE, obj |-> [list |-> << <<color, poly>> >>],
                             uniforms |-> uniforms]]
            /\ num_draw_calls' = num_draw_calls + 1
            /\ aborted' = FALSE
       ELSE /\ aborted' = TRUE
            /\ UNCHANGED <<target, num_draw_calls>>
    /\ UNCHANGED <<canvas, uniforms, fork_xf, direct_redraw, num_new_uploads>>

draw_polygon(color, poly, ok) ==
    /\ ~aborted
    /\ num_draw_calls < MaxCalls
    /\ num_new_uploads < MaxCalls
    /\ num_new_uploads' = num_new_uploads + 1
    /\ redraw_body(upload_borrowed(<< <<color, poly>> >>), ok)
    /\ UNCHANGED <<canvas, uniforms, fork_xf, direct_redraw>>

draw_line(color, thickness, line, ok) ==
    /\ ~aborted
    /\ draw_polygon(color, make_polygons(line, thickness), ok)

\* draw_rounded_line with both caps on the first endpoint
draw_rounded_line_caps_at_pt1(color, thickness, line, ok) ==
    /\ ~aborted
    /\ draw_polygon_batch(
        << <<color, make_polygons(line, thickness)>>,
           <<color, to_polygon(Circle_new(line.pt1, HalfOf(thickness)), TRIANGLES_PER_CIRCLE)>>,
           <<color, to_polygon(Circle_new(line.pt1, HalfOf(thickness)), TRIANGLES_PER_CIRCLE)>> >>,
        ok)

draw_rounded_line(color, thickness, line, ok) ==
    /\ ~aborted
    /\ draw_polygon_batch(
        << <<color, make_polygons(line, thickness)>>,
           <<color, to_polygon(Circle_new(line.pt1, HalfOf(thickness)), TRIANGLES_PER_CIRCLE)>>,
           <<color, to_polygon(Circle_new(line.pt2, HalfOf(thickness)), TRIANGLES_PER_CIRCLE)>> >>,
        ok)

\* draw_arrow that uploads and draws every polygon of the arrow on its own
draw_arrow_per_part(color, thickness, line, parts, ok) ==
    /\ ~aborted
    /\ LET polygons == make_arrow(line, thickness, parts)
       IN  /\ num_draw_calls + Len(polygons) <= MaxCalls
           /\ num_new_uploads + Len(polygons) <= MaxCalls
           /\ num_new_uploads' = num_new_uploads + Len(polygons)
           /\ IF ok
              THEN /\ target' = IF Len(polygons) = 0 THEN target
                                ELSE [target EXCEPT !.draw =
                                        [drawn |-> TRUE,
                                         obj |-> upload_borrowed(
                                                   << <<color, polygons[Len(polygons)]>> >>),
                                         uniforms |-> uniforms]]
                   /\ num_draw_calls' = num_draw_calls + Len(polygons)
                   /\ aborted' = FALSE
              ELSE /\ aborted' = TRUE
                   /\ UNCHANGED <<target, num_draw_calls>>
    /\ UNCHANGED <<canvas, uniforms, fork_xf, direct_redraw>>

\* parts: how many polygons line.make_arrow(thickness) returns
draw_arrow(color, thickness, line, parts, ok) ==
    /\ ~aborted
    /\ LET polygons == make_arrow(line, thickness, parts)
       IN  draw_polygon_batch([i \in 1..Len(polygons) |-> <<color, polygons[i]>>], ok)

draw_circle(color, circle, ok) ==
    /\ ~aborted
    /\ draw_polygon(color, to_polygon(circle, TRIANGLES_PER_CIRCLE), ok)

----------------------------------------------------------------------------
(* Forwarded read-only accessors.  Each takes &self and returns what the    *)
(* canvas returns; no field of the context is written.                      *)

get_screen_bounds == ~aborted /\ UNCHANGED vars

text_dims(txt) == ~aborted /\ UNCHANGED vars

screen_to_map(pt) == ~aborted /\ UNCHANGED vars

get_cursor_in_map_space == ~aborted /\ UNCHANGED vars

----------------------------------------------------------------------------
(* Operations with their inputs, and the specification *)

Fork == \E m \in MapPts, s \in ScreenPts, z \in Zooms : fork(m, s, z)
ForkScreenspace == fork_screenspace
Unfork == unfork
Clear == \E c \in ClearColors : clear(c)
DrawLine == \E c \in Colors, t \in Thicknesses, l \in Lines, ok \in BOOLEAN :
                draw_line(c, t, l, ok)
DrawRoundedLine == \E c \in Colors, t \in Thicknesses, l \in Lines, ok \in BOOLEAN :
                draw_rounded_line(c, t, l, ok)
DrawArrow == \E c \in Colors, t \in Thicknesses, l \in Lines, n \in 0..MaxArrowParts,
                ok \in BOOLEAN : draw_arrow(c, t, l, n, ok)
DrawCircle == \E c \in Colors, ci \in Circles, ok \in BOOLEAN : draw_circle(c, ci, ok)
DrawPolygon == \E c \in Colors, p \in Polygons, ok \in BOOLEAN : draw_polygon(c, p, ok)
DrawPolygonBatch == \E b \in Batches, ok \in BOOLEAN : draw_polygon_batch(b, ok)
Redraw == \E obj \in Drawables, ok \in BOOLEAN : redraw(obj, ok)
GetScreenBounds == get_screen_bounds
TextDims == text_dims("txt")
ScreenToMap == \E pt \in ScreenPts : screen_to_map(pt)
GetCursorInMapSpace == get_cursor_in_map_space

Next ==
    \/ Fork
    \/ ForkScreenspace
    \/ Unfork
    \/ Clear
    \/ DrawLine
    \/ DrawRoundedLine
    \/ DrawArrow
    \/ DrawCircle
    \/ DrawPolygon
    \/ DrawPolygonBatch
    \/ Redraw
    \/ GetScreenBounds
    \/ TextDims
    \/ ScreenToMap
    \/ GetCursorInMapSpace

Spec == Init /\ [][Next]_vars

----------------------------------------------------------------------------
(* Shorthands for the properties *)

DrawStar ==
    \/ DrawLine
    \/ DrawRoundedLine
    \/ DrawArrow
    \/ DrawCircle
    \/ DrawPolygon
    \/ DrawPolygonBatch

\* a draw_* call whose underlying draw call has the outcome ok
DrawStarWith(ok) ==
    \/ \E c \in Colors, t \in Thicknesses, l \in Lines : draw_line(c, t, l, ok)
    \/ \E c \in Colors, t \in Thicknesses, l \in Lines : draw_rounded_line(c, t, l, ok)
    \/ \E c \in Colors, t \in Thicknesses, l \in Lines, n \in 0..MaxArrowParts :
           draw_arrow(c, t, l, n, ok)
    \/ \E c \in Colors, ci \in Circles : draw_circle(c, ci, ok)
    \/ \E c \in Colors, p \in Polygons : draw_polygon(c, p, ok)
    \/ \E b \in Batches : draw_polygon_batch(b, ok)

ReadOnlyAccessor ==
    \/ GetScreenBounds
    \/ TextDims
    \/ ScreenToMap
    \/ GetCursorInMapSpace

Identity == <<0, 0, 1>>

\* n survives the conversion to f32 unchanged
F32Exact(n) == AsF32(n) = n

----------------------------------------------------------------------------
(* Camera transform properties *)

\* C1: whatever fork and fork_screenspace calls came before, a step of unfork
\* leaves the active transform equal to the canvas's persistent camera
\* (cam_x, cam_y, cam_zoom, as the uniform holds them) and the window uniform
\* equal to the canvas's (window_width, window_height).
C1_UnforkRestoresCanvasCamera ==
    [][unfork =>
         /\ uniforms'.transform =
              <<AsF32(canvas.cam_x), AsF32(canvas.cam_y), AsF32(canvas.cam_zoom)>>
         /\ uniforms'.window =
              <<AsF32(canvas.window_width), AsF32(canvas.window_height)>>]_vars

\* A fork to a transform that is neither the camera nor the identity has happened,
\* and the camera is active again: unfork ran after the fork.
C1_Witness ==
    /\ fork_xf # NoFork
    /\ fork_xf # CanvasTransform(canvas)
    /\ CanvasTransform(canvas) # Identity
    /\ uniforms.transform = CanvasTransform(canvas)
    /\ uniforms.window = <<canvas.window_width, canvas.window_height>>

\* C2: a step of fork_screenspace sets the active transform to offset (0,0) and
\* zoom 1, whatever the transform was before and whatever the canvas's camera is.
C2_ForkScreenspaceIsIdentity ==
    [][fork_screenspace => uniforms'.transform = <<0, 0, 1>>]_vars

\* The identity is active although the camera and the last fork are both different:
\* fork_screenspace ran after a fork.
C2_Witness ==
    /\ uniforms.transform = <<0, 0, 1>>
    /\ CanvasTransform(canvas) # <<0, 0, 1>>
    /\ fork_xf # NoFork
    /\ fork_xf # <<0, 0, 1>>

C6_ActiveTransformIsOneOfThree ==
    /\ uniforms.transform = CanvasTransform(canvas)
    /\ [](/\ uniforms.transform \in
                {CanvasTransform(canvas), Identity}
                    \cup (IF fork_xf = NoFork THEN {} ELSE {fork_xf})
          /\ uniforms.window = CanvasWindow(canvas))
    /\ [][uniforms' # uniforms => (Fork \/ ForkScreenspace \/ Unfork)]_vars

\* After a fork, draws and a clear, the forked transform is still the active one.
C6_Witness ==
    /\ fork_xf # NoFork
    /\ uniforms.transform = fork_xf
    /\ fork_xf # CanvasTransform(canvas)
    /\ fork_xf # Identity
    /\ target.clear # "none"
    /\ num_draw_calls > 0

----------------------------------------------------------------------------
(* Drawing properties *)

\* C3: every draw_* call that completes increments num_new_uploads by exactly 1
\* and num_draw_calls by at least 1, for every shape and from every reachable state.
C3_DrawCountsOneUpload ==
    [][(DrawStar /\ ~aborted') =>
         /\ num_new_uploads' = num_new_uploads + 1
         /\ num_draw_calls' >= num_draw_calls + 1]_vars

\* Draw calls have completed up to the cap of both counters.
C3_Witness ==
    /\ ~aborted
    /\ ~direct_redraw
    /\ num_new_uploads = MaxCalls
    /\ num_draw_calls = MaxCalls

\* C4: draw_rounded_line makes exactly one upload and, when the draw call
\* succeeds, one draw call, of a batch of exactly 3 components in the caller's
\* colour: the line body, a circle of radius thickness/2 on the first endpoint and
\* a circle of radius thickness/2 on the second endpoint.
C4_RoundedLineBatch ==
    [][\A c \in Colors, t \in Thicknesses, l \in Lines :
         (\E ok \in BOOLEAN : draw_rounded_line(c, t, l, ok)) =>
           /\ num_new_uploads' = num_new_uploads + 1
           /\ ~aborted' =>
                /\ num_draw_calls' = num_draw_calls + 1
                /\ target'.draw.drawn
                /\ target'.draw.uniforms = uniforms
                /\ target'.draw.obj.list =
                     << <<c, [shape |-> "line", line |-> l, thickness |-> t]>>,
                        <<c, [shape |-> "circle", center |-> l.pt1,
                              radius |-> t \div 2, triangles |-> 60]>>,
                        <<c, [shape |-> "circle", center |-> l.pt2,
                              radius |-> t \div 2, triangles |-> 60]>> >>]_vars

\* The frame holds a drawn rounded line: body, then two caps on different points.
C4_Witness ==
    /\ target.draw.drawn
    /\ Len(target.draw.obj.list) = 3
    /\ target.draw.obj.list[1][2].shape = "line"
    /\ target.draw.obj.list[2][2].shape = "circle"
    /\ target.draw.obj.list[3][2].shape = "circle"
    /\ target.draw.obj.list[2][2].center # target.draw.obj.list[3][2].center
    /\ target.draw.obj.list[3][1] = "blue"
    /\ num_new_uploads = 1
    /\ num_draw_calls = 1

\* C7: a failing draw call is fatal.  The step in which it fails aborts the
\* context without counting a draw call (a draw_* call has counted its upload by
\* then, a direct redraw counts none), and no operation runs once it is aborted.
C7_DrawFailureIsFatal ==
    [][/\ aborted => UNCHANGED vars
       /\ DrawStarWith(FALSE) =>
            /\ aborted'
            /\ num_draw_calls' = num_draw_calls
            /\ num_new_uploads' = num_new_uploads + 1
            /\ target' = target
       /\ (\E obj \in Drawables : redraw(obj, FALSE)) =>
            /\ aborted'
            /\ num_draw_calls' = num_draw_calls
            /\ num_new_uploads' = num_new_uploads
            /\ target' = target]_vars

\* The draw call of a draw_* call has failed after an earlier one succeeded.
C7_Witness ==
    /\ aborted
    /\ num_draw_calls = 1
    /\ num_new_uploads = 2

\* C8: draw_arrow uploads the polygons of the arrow, however many make_arrow
\* returns, as one batch, each paired with the caller's colour, and draws it with
\* one draw call: both counters grow by exactly 1.
C8_ArrowIsOneBatch ==
    [][\A c \in Colors, t \in Thicknesses, l \in Lines, n \in 0..MaxArrowParts :
         (\E ok \in BOOLEAN : draw_arrow(c, t, l, n, ok)) =>
           /\ num_new_uploads' = num_new_uploads + 1
           /\ ~aborted' =>
                /\ num_draw_calls' = num_draw_calls + 1
                /\ target'.draw.drawn
                /\ Len(target'.draw.obj.list) = n
                /\ \A i \in 1..n :
                     target'.draw.obj.list[i] =
                       <<c, [shape |-> "arrow", line |-> l, thickness |-> t, part |-> i]>>]_vars

\* The frame holds a drawn arrow of the largest number of parts, after one upload
\* and one draw call.
C8_Witness ==
    /\ target.draw.drawn
    /\ Len(target.draw.obj.list) = MaxArrowParts
    /\ target.draw.obj.list[MaxArrowParts][2].shape = "arrow"
    /\ target.draw.obj.list[MaxArrowParts][2].part = MaxArrowParts
    /\ num_new_uploads = 1
    /\ num_draw_calls = 1

\* C9: every draw call is issued with the uniforms active at the moment of the
\* call and leaves them as they are; a successful redraw of uploaded geometry
\* increments num_draw_calls by exactly 1 and leaves num_new_uploads alone.
C9_DrawUsesActiveTransform ==
    [][/\ num_draw_calls' # num_draw_calls =>
            /\ target'.draw.drawn
            /\ target'.draw.uniforms = uniforms
            /\ uniforms' = uniforms
       /\ \A obj \in Drawables :
            redraw(obj, TRUE) =>
              /\ num_draw_calls' = num_draw_calls + 1
              /\ num_new_uploads' = num_new_uploads
              /\ uniforms' = uniforms
              /\ target'.draw = [drawn |-> TRUE, obj |-> obj, uniforms |-> uniforms]]_vars

\* A redraw was issued under a fork, with the forked transform, and the canvas
\* camera has been restored since.
C9_Witness ==
    /\ target.draw.drawn
    /\ target.draw.obj \in Drawables
    /\ fork_xf # NoFork
    /\ target.draw.uniforms.transform = fork_xf
    /\ fork_xf # CanvasTransform(canvas)
    /\ fork_xf # Identity
    /\ uniforms.transform = CanvasTransform(canvas)
    /\ direct_redraw
    /\ num_new_uploads = 0

\* C10: both counters start at 0 and never decrease; fork, fork_screenspace,
\* unfork, clear and the read-only accessors leave them unchanged; and as long as
\* no draw has failed num_new_uploads <= num_draw_calls, with equality exactly
\* when redraw has never been called directly.
C10_Counters ==
    /\ num_new_uploads = 0
    /\ num_draw_calls = 0
    /\ [](~aborted =>
            /\ num_new_uploads <= num_draw_calls
            /\ (num_new_uploads = num_draw_calls) <=> ~direct_redraw)
    /\ [][/\ num_new_uploads' >= num_new_uploads
          /\ num_draw_calls' >= num_draw_calls
          /\ (Fork \/ ForkScreenspace \/ Unfork \/ Clear \/ ReadOnlyAccessor) =>
               UNCHANGED <<num_new_uploads, num_draw_calls>>]_vars

\* One draw_* call and one direct redraw have completed.
C10_Witness ==
    /\ ~aborted
    /\ direct_redraw
    /\ num_new_uploads = 1
    /\ num_draw_calls = 2

====
